---- MODULE Spec2Model ----
(***************************************************************************)
(* Karp-Miller coverability tree of a Petri net (src/code.py).             *)
(*                                                                         *)
(* PetriNetwork (is_enabled, get_enabled_transitions, fire_transition),    *)
(* CoverabilityTree (compare_markings, apply_omega, build_tree,            *)
(* analyze_properties) and the part of PetriApp.generate_tree that builds  *)
(* the net, runs build_tree and displays the analysis.                     *)
(*                                                                         *)
(* A marking is a sequence of values; float('inf') is Omega.  A place is   *)
(* its 1-based position in net.places; a transition is its 1-based         *)
(* position in the insertion order of the transitions dictionary and its   *)
(* 'in' / 'out' dictionaries are weight vectors over the places, 0 for a   *)
(* place that is not a key.  Node ids are 0-based as in the code:          *)
(* nodes[id + 1] is the node with node_id = id.                            *)
(***************************************************************************)
EXTENDS Integers, Sequences, FiniteSets

VARIABLES net, pc, nodes, edges, new_nodes, current, enabled, node_counter,
          report, err, call, hist

vars == <<net, pc, nodes, edges, new_nodes, current, enabled, node_counter,
          report, err, call, hist>>

treeVars == <<net, pc, nodes, edges, new_nodes, current, enabled,
              node_counter, report, err, hist>>

(* float('inf') *)
Omega == -1

(* the finite stand-in for float('inf') while firing *)
Sentinel == 1000

(* None: the root's parent and transition *)
NoneRef == -1

(* ---------------- bounds of the inputs ---------------- *)
MaxWeight == 1
MaxInit == 1
MaxCount == 5
MaxTokens == 2
MaxLen == 2
MaxFirings == 2

(* ---------------- PetriNetwork ---------------- *)

RECURSIVE in_loop_raises(_, _, _)
(* is_enabled's loop from arc i on: TRUE when marking[idx] is read past the
   end of the marking (IndexError) before the loop returns False. *)
in_loop_raises(tr, marking, i) ==
    IF i > Len(tr.in) THEN FALSE
    ELSE IF tr.in[i] = 0 THEN in_loop_raises(tr, marking, i + 1)
    ELSE IF i > Len(marking) THEN TRUE
    ELSE IF marking[i] # Omega /\ marking[i] < tr.in[i] THEN FALSE
    ELSE in_loop_raises(tr, marking, i + 1)

is_enabled_raises(n, t, marking) ==
    t \in DOMAIN n.transitions /\ in_loop_raises(n.transitions[t], marking, 1)

(* marking[idx] <= weight in place of marking[idx] < weight *)
is_enabled_strict(n, t, marking) ==
    /\ t \in DOMAIN n.transitions
    /\ \A i \in 1..Len(n.transitions[t].in) :
          n.transitions[t].in[i] > 0 =>
             /\ i <= Len(marking)
             /\ ~(marking[i] # Omega /\ marking[i] <= n.transitions[t].in[i])

(* the token test left out *)
is_enabled_always(n, t, marking) == t \in DOMAIN n.transitions

(* is_enabled, for a call that does not raise *)
is_enabled(n, t, marking) ==
    /\ t \in DOMAIN n.transitions
    /\ \A i \in 1..Len(n.transitions[t].in) :
          n.transitions[t].in[i] > 0 =>
             /\ i <= Len(marking)
             /\ ~(marking[i] # Omega /\ marking[i] < n.transitions[t].in[i])

RECURSIVE enabled_from(_, _, _)
enabled_from(n, marking, t) ==
    IF t > Len(n.transitions) THEN <<>>
    ELSE (IF is_enabled(n, t, marking) THEN <<t>> ELSE <<>>)
            \o enabled_from(n, marking, t + 1)

Reverse(sq) == [k \in 1..Len(sq) |-> sq[Len(sq) + 1 - k]]

(* an iteration order that is not the same in every build *)
get_enabled_transitions_by_build(n, marking) ==
    IF hist.shown.produced
    THEN Reverse(enabled_from(n, marking, 1))
    ELSE enabled_from(n, marking, 1)

(* the transitions in the reverse of their definition order *)
get_enabled_transitions_reversed(n, marking) ==
    Reverse(enabled_from(n, marking, 1))

(* every transition, enabled or not *)
get_enabled_transitions_all(n, marking) ==
    [t \in 1..Len(n.transitions) |-> t]

get_enabled_transitions(n, marking) == enabled_from(n, marking, 1)

get_enabled_transitions_raises(n, marking) ==
    \E t \in DOMAIN n.transitions : is_enabled_raises(n, t, marking)

(* fire_transition raising ValueError *)
fire_raises_value(n, t, marking) == ~is_enabled(n, t, marking)

(* fire_transition raising IndexError on new_marking[idx] += weight *)
fire_raises_index(n, t, marking) ==
    \E i \in 1..Len(n.transitions[t].out) :
        n.transitions[t].out[i] > 0 /\ i > Len(marking)

(* the output arcs left out *)
fire_transition_consume_only(n, t, marking) ==
    [i \in 1..Len(marking) |->
        IF marking[i] = Omega THEN Omega
        ELSE marking[i]
               - (IF i <= Len(n.transitions[t].in) THEN n.transitions[t].in[i] ELSE 0)]

(* fire_transition, for a call that does not raise; inf - w = inf + w = inf *)
fire_transition(n, t, marking) ==
    [i \in 1..Len(marking) |->
        IF marking[i] = Omega THEN Omega
        ELSE marking[i]
               - (IF i <= Len(n.transitions[t].in) THEN n.transitions[t].in[i] ELSE 0)
               + (IF i <= Len(n.transitions[t].out) THEN n.transitions[t].out[i] ELSE 0)]

(* ---------------- CoverabilityTree: markings ---------------- *)

RECURSIVE compare_loop(_, _, _, _)
compare_loop(m1, m2, i, acc) ==
    IF i > Len(m1) THEN acc
    ELSE IF m1[i] = Omega
    THEN compare_loop(m1, m2, i + 1,
            IF m2[i] # Omega THEN [acc EXCEPT !.greater = TRUE] ELSE acc)
    ELSE IF m2[i] = Omega
    THEN compare_loop(m1, m2, i + 1,
            [acc EXCEPT !.coverable = FALSE, !.equal = FALSE])
    ELSE IF m1[i] > m2[i]
    THEN compare_loop(m1, m2, i + 1,
            [acc EXCEPT !.greater = TRUE, !.equal = FALSE])
    ELSE IF m1[i] < m2[i]
    THEN compare_loop(m1, m2, i + 1,
            [acc EXCEPT !.coverable = FALSE, !.equal = FALSE])
    ELSE compare_loop(m1, m2, i + 1, acc)

RECURSIVE compare_loop_keeps_coverable(_, _, _, _)
compare_loop_keeps_coverable(m1, m2, i, acc) ==
    IF i > Len(m1) THEN acc
    ELSE IF m1[i] = Omega
    THEN compare_loop_keeps_coverable(m1, m2, i + 1,
            IF m2[i] # Omega THEN [acc EXCEPT !.greater = TRUE] ELSE acc)
    ELSE IF m2[i] = Omega
    THEN compare_loop_keeps_coverable(m1, m2, i + 1,
            [acc EXCEPT !.equal = FALSE])
    ELSE IF m1[i] > m2[i]
    THEN compare_loop_keeps_coverable(m1, m2, i + 1,
            [acc EXCEPT !.greater = TRUE, !.equal = FALSE])
    ELSE IF m1[i] < m2[i]
    THEN compare_loop_keeps_coverable(m1, m2, i + 1,
            [acc EXCEPT !.coverable = FALSE, !.equal = FALSE])
    ELSE compare_loop_keeps_coverable(m1, m2, i + 1, acc)

compare_markings_wrong(m1, m2) ==
    compare_loop_keeps_coverable(m1, m2, 1,
        [coverable |-> TRUE, equal |-> TRUE, greater |-> FALSE])

compare_markings(m1, m2) ==
    compare_loop(m1, m2, 1,
        [coverable |-> TRUE, equal |-> TRUE, greater |-> FALSE])

(* result = deepcopy(m_ancestor) instead of deepcopy(m_prime) *)
apply_omega_from_ancestor(m_prime, m_ancestor) == m_ancestor

(* no widening at all *)
apply_omega_never(m_prime, m_ancestor) == m_prime

apply_omega(m_prime, m_ancestor) ==
    [i \in 1..Len(m_prime) |->
        IF m_prime[i] # Omega /\ m_ancestor[i] # Omega /\ m_prime[i] > m_ancestor[i]
        THEN Omega
        ELSE m_prime[i]]

(* ---------------- CoverabilityTree: build_tree ---------------- *)

TreeNode(marking, node_id, tag) ==
    [marking |-> marking, node_id |-> node_id, tag |-> tag,
     parent |-> NoneRef, children |-> <<>>, transition |-> NoneRef,
     path_to_root |-> <<>>]

node(id) == nodes[id + 1]

(* for anc in current.path_to_root[:-1]: ... if equal: tag = "old"; break *)
ancestor_equal(cur) ==
    \E k \in 1..(Len(cur.path_to_root) - 1) :
        compare_markings(cur.marking, node(cur.path_to_root[k]).marking).equal

(* firing_marking = [1000 if m == float('inf') else m for m in current.marking] *)
firing_marking(marking) ==
    [i \in 1..Len(marking) |->
        IF marking[i] = Omega THEN Sentinel ELSE marking[i]]

(* for i, m in enumerate(current.marking): if m == inf: m_prime[i] = inf *)
restore_omega(m_prime, marking) ==
    [i \in 1..Len(m_prime) |->
        IF marking[i] = Omega THEN Omega ELSE m_prime[i]]

RECURSIVE accelerate_from_current(_, _, _)
(* the path walked from current up to the root: the last qualifying ancestor *)
accelerate_from_current(m_prime, path, j) ==
    IF j < 1 THEN m_prime
    ELSE LET c == compare_markings(m_prime, nodes[path[j] + 1].marking)
         IN  IF c.coverable /\ ~c.equal
             THEN apply_omega(m_prime, nodes[path[j] + 1].marking)
             ELSE accelerate_from_current(m_prime, path, j - 1)

accelerate_loop_last(m_prime, path, k) ==
    accelerate_from_current(m_prime, path, Len(path))

RECURSIVE accelerate_loop(_, _, _)
(* for anc in current.path_to_root: first coverable and not equal, then break *)
accelerate_loop(m_prime, path, k) ==
    IF k > Len(path) THEN m_prime
    ELSE LET c == compare_markings(m_prime, node(path[k]).marking)
         IN  IF c.coverable /\ ~c.equal
             THEN apply_omega(m_prime, node(path[k]).marking)
             ELSE accelerate_loop(m_prime, path, k + 1)

(* Python's integers are unbounded: the token counts the model follows *)
WithinCount(marking) ==
    \A i \in 1..Len(marking) : marking[i] <= MaxCount

successor(cur, t) ==
    restore_omega(fire_transition(net, t, firing_marking(cur.marking)),
                  cur.marking)

NoReport ==
    [produced |-> FALSE, bounded |-> TRUE, unbounded_places |-> <<>>,
     dead_end_nodes |-> 0, old_nodes |-> 0]

(* hist.shown is what the output box holds (the last tree displayed) and
   hist.prev what it held before that; hist.fired is the last call of
   fire_transition by build_tree and hist.dequeued the ids popped from the
   queue so far, in order. *)
NoShown == [produced |-> FALSE, nodes |-> <<>>, edges |-> <<>>]

NoFire ==
    [called |-> FALSE, node |-> NoneRef, transition |-> NoneRef,
     passed |-> <<>>, result |-> <<>>, successor |-> <<>>]

NoHist ==
    [shown |-> NoShown, prev |-> NoShown, fired |-> NoFire, dequeued |-> <<>>]

Raise(e) ==
    /\ pc' = "error"
    /\ err' = e

(* root.path_to_root = [root] left out *)
BuildInit_no_path ==
    /\ pc = "start"
    /\ nodes' = <<TreeNode(net.initial_marking, node_counter, "new")>>
    /\ node_counter' = node_counter + 1
    /\ new_nodes' = <<node_counter>>
    /\ pc' = "loop"
    /\ hist' = [hist EXCEPT !.fired = NoFire, !.dequeued = <<>>]
    /\ UNCHANGED <<net, edges, current, enabled, report, err, call>>

(* net = PetriNetwork(...); tree = CoverabilityTree(net); build_tree up to
   the while loop *)
BuildInit ==
    /\ pc = "start"
    /\ nodes' = <<[TreeNode(net.initial_marking, node_counter, "new")
                     EXCEPT !.path_to_root = <<node_counter>>]>>
    /\ node_counter' = node_counter + 1
    /\ new_nodes' = <<node_counter>>
    /\ pc' = "loop"
    /\ hist' = [hist EXCEPT !.fired = NoFire, !.dequeued = <<>>]
    /\ UNCHANGED <<net, edges, current, enabled, report, err, call>>

(* current.tag = "processed" left out *)
Dequeue_no_tag ==
    /\ pc = "loop"
    /\ new_nodes # <<>>
    /\ current' = Head(new_nodes)
    /\ new_nodes' = Tail(new_nodes)
    /\ nodes' = nodes
    /\ pc' = "ancestors"
    /\ hist' = [hist EXCEPT !.dequeued = Append(@, Head(new_nodes))]
    /\ UNCHANGED <<net, edges, enabled, node_counter, report, err, call>>

(* new_nodes.pop() in place of new_nodes.pop(0) *)
Dequeue_lifo ==
    /\ pc = "loop"
    /\ new_nodes # <<>>
    /\ current' = new_nodes[Len(new_nodes)]
    /\ new_nodes' = SubSeq(new_nodes, 1, Len(new_nodes) - 1)
    /\ nodes' = [nodes EXCEPT ![new_nodes[Len(new_nodes)] + 1].tag = "processed"]
    /\ pc' = "ancestors"
    /\ hist' = [hist EXCEPT !.dequeued = Append(@, new_nodes[Len(new_nodes)])]
    /\ UNCHANGED <<net, edges, enabled, node_counter, report, err, call>>

(* current = new_nodes.pop(0); current.tag = "processed" *)
Dequeue ==
    /\ pc = "loop"
    /\ new_nodes # <<>>
    /\ current' = Head(new_nodes)
    /\ new_nodes' = Tail(new_nodes)
    /\ nodes' = [nodes EXCEPT ![Head(new_nodes) + 1].tag = "processed"]
    /\ pc' = "ancestors"
    /\ hist' = [hist EXCEPT !.dequeued = Append(@, Head(new_nodes))]
    /\ UNCHANGED <<net, edges, enabled, node_counter, report, err, call>>

(* the ancestor loop and "if current.tag == 'old': continue" *)
AncestorCheck ==
    /\ pc = "ancestors"
    /\ IF ancestor_equal(node(current))
       THEN /\ nodes' = [nodes EXCEPT ![current + 1].tag = "old"]
            /\ pc' = "loop"
       ELSE /\ nodes' = nodes
            /\ pc' = "enabled"
    /\ UNCHANGED <<net, edges, new_nodes, current, enabled, node_counter,
                   report, err, call, hist>>

(* enabled = get_enabled_transitions(current.marking); dead-end if empty *)
EnabledCheck ==
    /\ pc = "enabled"
    /\ IF get_enabled_transitions_raises(net, node(current).marking)
       THEN /\ Raise("IndexError")
            /\ UNCHANGED <<nodes, enabled>>
       ELSE LET en == get_enabled_transitions(net, node(current).marking)
            IN  /\ enabled' = en
                /\ err' = err
                /\ IF en = <<>>
                   THEN /\ nodes' = [nodes EXCEPT ![current + 1].tag = "dead-end"]
                        /\ pc' = "loop"
                   ELSE /\ nodes' = nodes
                        /\ pc' = "fire"
    /\ UNCHANGED <<net, edges, new_nodes, current, node_counter, report, call,
                   hist>>

(* one pass of "for t in enabled": fire, restore, accelerate, add the node *)
FireOne ==
    /\ pc = "fire"
    /\ enabled # <<>>
    /\ LET t == Head(enabled)
           cur == node(current)
           fm == firing_marking(cur.marking)
       IN  IF fire_raises_value(net, t, fm)
           THEN /\ Raise("ValueError")
                /\ UNCHANGED <<nodes, edges, new_nodes, enabled, node_counter,
                               hist>>
           ELSE IF fire_raises_index(net, t, fm)
           THEN /\ Raise("IndexError")
                /\ UNCHANGED <<nodes, edges, new_nodes, enabled, node_counter,
                               hist>>
           ELSE LET m_prime == accelerate_loop(successor(cur, t),
                                               cur.path_to_root, 1)
                    new_node == [TreeNode(m_prime, node_counter, "new")
                                   EXCEPT !.parent = current,
                                          !.transition = t,
                                          !.path_to_root =
                                             Append(cur.path_to_root, node_counter)]
                IN  /\ WithinCount(m_prime)
                    /\ nodes' = Append([nodes EXCEPT ![current + 1].children =
                                            Append(@, node_counter)], new_node)
                    /\ new_nodes' = Append(new_nodes, node_counter)
                    /\ edges' = Append(edges, <<current, node_counter, t>>)
                    /\ node_counter' = node_counter + 1
                    /\ enabled' = Tail(enabled)
                    /\ pc' = IF Tail(enabled) = <<>> THEN "loop" ELSE "fire"
                    /\ err' = err
                    /\ hist' = [hist EXCEPT !.fired =
                                  [called |-> TRUE, node |-> current,
                                   transition |-> t, passed |-> fm,
                                   result |-> fire_transition(net, t, fm),
                                   successor |-> successor(cur, t)]]
    /\ UNCHANGED <<net, current, report, call>>

(* ---------------- CoverabilityTree: analyze_properties ---------------- *)

InSeq(x, s) == \E k \in 1..Len(s) : s[k] = x

RECURSIVE scan_marking(_, _, _, _)
(* for i, m in enumerate(node.marking): the places seen with inf, each once *)
scan_marking(places, marking, i, acc) ==
    IF i > Len(marking) THEN acc
    ELSE IF marking[i] = Omega
    THEN scan_marking(places, marking, i + 1,
            [acc EXCEPT !.bounded = FALSE,
                        !.unbounded_places =
                            IF InSeq(places[i], @) THEN @
                            ELSE Append(@, places[i])])
    ELSE scan_marking(places, marking, i + 1, acc)

RECURSIVE scan_nodes(_, _, _, _)
(* for node in self.nodes *)
scan_nodes(places, ns, k, acc) ==
    IF k > Len(ns) THEN acc
    ELSE LET a == scan_marking(places, ns[k].marking, 1, acc)
         IN  scan_nodes(places, ns, k + 1,
                [a EXCEPT !.dead_end_nodes =
                              IF ns[k].tag = "dead-end" THEN @ + 1 ELSE @,
                          !.old_nodes =
                              IF ns[k].tag = "old" THEN @ + 1 ELSE @])

(* first place only: the inner loop stops after index 0 *)
analyze_properties_first_place(places, ns) ==
    [produced |-> TRUE,
     bounded |-> \A k \in 1..Len(ns) : ns[k].marking[1] # Omega,
     unbounded_places |->
        IF \E k \in 1..Len(ns) : ns[k].marking[1] = Omega
        THEN <<places[1]>> ELSE <<>>,
     dead_end_nodes |-> Cardinality({k \in 1..Len(ns) : ns[k].tag = "dead-end"}),
     old_nodes |-> Cardinality({k \in 1..Len(ns) : ns[k].tag = "old"})]

analyze_properties(places, ns) ==
    scan_nodes(places, ns, 1,
        [produced |-> TRUE, bounded |-> TRUE, unbounded_places |-> <<>>,
         dead_end_nodes |-> 0, old_nodes |-> 0])

(* self.petri_net.places[i] past the end of the place list *)
analyze_properties_raises(places, ns) ==
    \E k \in 1..Len(ns) : \E i \in 1..Len(ns[k].marking) :
        ns[k].marking[i] = Omega /\ i > Len(places)

(* ---------------- PetriApp.generate_tree ---------------- *)

(* build_tree returns when the queue is empty; the tree and the analysis are
   written to the output box *)
Display ==
    /\ pc = "loop"
    /\ new_nodes = <<>>
    /\ IF analyze_properties_raises(net.places, nodes)
       THEN /\ Raise("IndexError")
            /\ report' = report
            /\ hist' = hist
       ELSE /\ report' = analyze_properties(net.places, nodes)
            /\ pc' = "done"
            /\ err' = err
            /\ hist' = [hist EXCEPT !.prev = hist.shown,
                                    !.shown = [produced |-> TRUE,
                                               nodes |-> nodes,
                                               edges |-> edges]]
    /\ UNCHANGED <<net, nodes, edges, new_nodes, current, enabled,
                   node_counter, call>>

(* ---------------- the nets ---------------- *)

Places2 == <<"P0", "P1">>

WeightVectors == [1..Len(Places2) -> 0..MaxWeight]

Transitions == [in : WeightVectors, out : WeightVectors]

(* one or two transitions, in definition order *)
TransitionLists ==
    {<<a>> : a \in Transitions} \cup {<<a, b>> : a, b \in Transitions}

(* the marking field as typed: one entry too few, right, or one too many *)
InitialMarkings ==
    UNION {[1..l -> 0..MaxInit] :
              l \in (Len(Places2) - 1)..(Len(Places2) + 1)}

FamilyNets ==
    [places : {Places2}, transitions : TransitionLists,
     initial_marking : InitialMarkings]

(* P0 = [1]; t1: P0=1 -> P0=2 *)
Scenario1 ==
    [places |-> <<"P0">>,
     transitions |-> <<[in |-> <<1>>, out |-> <<2>>]>>,
     initial_marking |-> <<1>>]

(* P0 = [0]; t1: P0=1 -> *)
Scenario2 ==
    [places |-> <<"P0">>,
     transitions |-> <<[in |-> <<1>>, out |-> <<0>>]>>,
     initial_marking |-> <<0>>]

Nets == FamilyNets \cup {Scenario1, Scenario2}

Valid(n) ==
    /\ Len(n.initial_marking) = Len(n.places)
    /\ \A i \in 1..Len(n.initial_marking) : n.initial_marking[i] >= 0
    /\ \A t \in 1..Len(n.transitions) :
          /\ Len(n.transitions[t].in) = Len(n.places)
          /\ Len(n.transitions[t].out) = Len(n.places)

NoCall ==
    [stage |-> "none", m1 |-> <<>>, m2 |-> <<>>,
     cmp |-> [coverable |-> TRUE, equal |-> TRUE, greater |-> FALSE],
     acc |-> <<>>, acc2 |-> <<>>]

Init ==
    /\ net \in Nets
    /\ pc = "start"
    /\ nodes = <<>>
    /\ edges = <<>>
    /\ new_nodes = <<>>
    /\ current = NoneRef
    /\ enabled = <<>>
    /\ node_counter = 0
    /\ report = NoReport
    /\ err = "none"
    /\ call = NoCall
    /\ hist = NoHist

Next ==
    \/ BuildInit
    \/ Dequeue
    \/ AncestorCheck
    \/ EnabledCheck
    \/ FireOne
    \/ Display

Spec == Init /\ [][Next]_vars

(* the builds of the valid nets *)
ValidInit == Init /\ Valid(net)

(* "Generate Tree" clicked again with the same input: generate_tree parses
   the fields again and builds a new net and a new, empty tree; the output
   box keeps what it shows until the new result replaces it *)
Regenerate ==
    /\ pc \in {"done", "error"}
    /\ pc' = "start"
    /\ nodes' = <<>>
    /\ edges' = <<>>
    /\ new_nodes' = <<>>
    /\ current' = NoneRef
    /\ enabled' = <<>>
    /\ node_counter' = 0
    /\ err' = "none"
    /\ UNCHANGED <<net, report, call, hist>>

TwinNext ==
    \/ Next
    \/ Regenerate

(* repeated builds of the same valid net *)
TwinSpec == ValidInit /\ [][TwinNext]_vars

(* build_tree is one uninterrupted computation: every step that can run does *)
FairSpec == ValidInit /\ [][Next]_vars /\ WF_vars(Next)

(* ---------------- compare_markings and apply_omega on their own ---------------- *)

Values == {Omega} \cup (0..MaxTokens)

MarkingPairs ==
    UNION {[1..l -> Values] \X [1..l -> Values] : l \in 1..MaxLen}

PureInit ==
    /\ \E p \in MarkingPairs :
          call = [NoCall EXCEPT !.stage = "input", !.m1 = p[1], !.m2 = p[2]]
    /\ net = Scenario1
    /\ pc = "pure"
    /\ nodes = <<>>
    /\ edges = <<>>
    /\ new_nodes = <<>>
    /\ current = NoneRef
    /\ enabled = <<>>
    /\ node_counter = 0
    /\ report = NoReport
    /\ err = "none"
    /\ hist = NoHist

ApplyCompare ==
    /\ call.stage = "input"
    /\ call' = [call EXCEPT !.stage = "compared",
                            !.cmp = compare_markings(call.m1, call.m2)]
    /\ UNCHANGED treeVars

ApplyOmega ==
    /\ call.stage = "input"
    /\ call' = [call EXCEPT !.stage = "accelerated",
                            !.acc = apply_omega(call.m1, call.m2)]
    /\ UNCHANGED treeVars

ApplyOmegaAgain ==
    /\ call.stage = "accelerated"
    /\ call' = [call EXCEPT !.stage = "accelerated2",
                            !.acc2 = apply_omega(call.acc, call.m2)]
    /\ UNCHANGED treeVars

PureNext ==
    \/ ApplyCompare
    \/ ApplyOmega
    \/ ApplyOmegaAgain

PureSpec == PureInit /\ [][PureNext]_vars

(* ---------------- the order on markings, and the net's own firing ---------------- *)

(* a >= b with Omega >= everything and a finite value never >= Omega *)
Geq(a, b) == a = Omega \/ (b # Omega /\ a >= b)

Covers(m1, m2) == \A i \in 1..Len(m1) : Geq(m1[i], m2[i])

HasOmega(m) == \E i \in 1..Len(m) : m[i] = Omega

RECURSIVE ReachableIn(_, _)
(* the markings the net reaches from its initial marking in at most k firings *)
ReachableIn(n, k) ==
    IF k = 0 THEN {n.initial_marking}
    ELSE LET R == ReachableIn(n, k - 1)
         IN  R \cup {fire_transition(n, t, m) :
                        <<m, t>> \in {x \in R \X (1..Len(n.transitions)) :
                                         is_enabled(n, x[2], x[1])}}

ProperAncestors(k) ==
    {nodes[k].path_to_root[j] + 1 : j \in 1..(Len(nodes[k].path_to_root) - 1)}

(* ---------------- claims ---------------- *)

(* C1: when build_tree has ended on a valid net, every marking the net
   reaches from the initial marking (here in at most MaxFirings firings) is
   covered by the marking of some node of the tree. *)
C1_TreeCoversReachable ==
    (pc = "done" /\ Valid(net)) =>
        \A m \in ReachableIn(net, MaxFirings) :
            \E k \in 1..Len(nodes) : Covers(nodes[k].marking, m)

(* C2: when build_tree has ended, a node is tagged old exactly when its
   marking is identical to the marking of one of its proper ancestors. *)
C2_OldIffEqualAncestor ==
    (pc = "done" /\ Valid(net)) =>
        \A k \in 1..Len(nodes) :
            (nodes[k].tag = "old") <=>
                (\E a \in ProperAncestors(k) : nodes[a].marking = nodes[k].marking)

(* C3: on the net P0 = [1], t1: P0=1 -> P0=2, the tree has 3 nodes: the root
   [1] processed, its child [Omega] processed, the grandchild [Omega] old;
   the report says unbounded with place P0, 0 dead ends, 1 old node. *)
C3_Scenario1Tree ==
    (net = Scenario1 /\ pc = "done") =>
        /\ Len(nodes) = 3
        /\ nodes[1].marking = <<1>> /\ nodes[1].tag = "processed"
        /\ nodes[2].marking = <<Omega>> /\ nodes[2].tag = "processed"
        /\ nodes[2].parent = 0 /\ nodes[2].transition = 1
        /\ nodes[3].marking = <<Omega>> /\ nodes[3].tag = "old"
        /\ nodes[3].parent = 1 /\ nodes[3].transition = 1
        /\ report = [produced |-> TRUE, bounded |-> FALSE,
                     unbounded_places |-> <<"P0">>,
                     dead_end_nodes |-> 0, old_nodes |-> 1]

(* C4: on every valid net build_tree ends: the queue runs empty and the
   result is displayed. *)
C4_Terminates == Valid(net) => <>(pc = "done" /\ new_nodes = <<>>)

(* a build that needed the widening to Omega has ended *)
C4_Witness ==
    /\ Valid(net) /\ pc = "done"
    /\ \E k \in 1..Len(nodes) : HasOmega(nodes[k].marking)

(* C5: the equal flag of compare_markings(m1, m2) is true exactly when the
   two markings are the same, component by component. *)
C5_EqualIffSame ==
    call.stage = "compared" => (call.cmp.equal <=> call.m1 = call.m2)

(* C6: the coverable flag of compare_markings(m1, m2) is true exactly when
   m1[i] >= m2[i] at every place, Omega >= anything, finite never >= Omega. *)
C6_CoverableIffGeq ==
    call.stage = "compared" => (call.cmp.coverable <=> Covers(call.m1, call.m2))

(* m1 is finite where m2 is Omega, and the comparison says not coverable *)
C6_Witness ==
    /\ call.stage = "compared"
    /\ ~call.cmp.coverable
    /\ \E i \in 1..Len(call.m1) : call.m1[i] # Omega /\ call.m2[i] = Omega
    /\ \E i \in 1..Len(call.m1) : call.m1[i] = Omega /\ call.m2[i] # Omega

(* C7: when the initial marking's length differs from the number of places,
   no node is ever created and no report is produced. *)
C7_NoTreeOnLengthMismatch ==
    Len(net.initial_marking) # Len(net.places) =>
        (nodes = <<>> /\ ~report.produced)

(* C8: on a valid net the builder never has fire_transition raise its
   disabled-transition error: every transition it is about to fire is enabled
   at the marking it passes. *)
C8_FiresOnlyEnabled ==
    Valid(net) =>
        /\ err # "ValueError"
        /\ (pc = "fire" /\ enabled # <<>>) =>
              is_enabled(net, Head(enabled),
                         firing_marking(node(current).marking))

(* a valid net whose build fired at least two transitions *)
C8_Witness == Valid(net) /\ pc = "done" /\ Len(edges) >= 2

(* C9: the report says bounded exactly when no node's marking holds Omega,
   and lists the names of the places holding Omega in some node, each once,
   in the order first met scanning nodes in creation order and places in
   index order. *)
C9_ReportMatchesTree ==
    pc = "done" =>
        LET L == Len(net.places)
            Seen == {<<k, i>> \in (1..Len(nodes)) \X (1..L) :
                        i <= Len(nodes[k].marking) /\ nodes[k].marking[i] = Omega}
            First(p) == CHOOSE x \in Seen :
                            /\ net.places[x[2]] = p
                            /\ \A y \in Seen : net.places[y[2]] = p =>
                                  (x[1] < y[1] \/ (x[1] = y[1] /\ x[2] <= y[2]))
            Before(x, y) == x[1] < y[1] \/ (x[1] = y[1] /\ x[2] < y[2])
            U == report.unbounded_places
        IN  /\ report.bounded <=>
                  (\A k \in 1..Len(nodes) : ~HasOmega(nodes[k].marking))
            /\ {U[j] : j \in 1..Len(U)} = {net.places[x[2]] : x \in Seen}
            /\ \A a, b \in 1..Len(U) :
                  a < b => (U[a] # U[b] /\ Before(First(U[a]), First(U[b])))

(* an unbounded report naming two places, the second place met first *)
C9_Witness ==
    /\ pc = "done"
    /\ ~report.bounded
    /\ report.unbounded_places = <<"P1", "P0">>

(* C10: apply_omega applied twice against the same ancestor gives what one
   application gives, and a component that is Omega in the candidate is Omega
   in the result. *)
C10_ApplyOmegaIdempotent ==
    call.stage = "accelerated2" =>
        /\ call.acc2 = call.acc
        /\ \A i \in 1..Len(call.m1) :
              call.m1[i] = Omega => (call.acc[i] = Omega /\ call.acc2[i] = Omega)

(* a candidate with an Omega over a finite ancestor value and a finite
   component widened by the first application *)
C10_Witness ==
    /\ call.stage = "accelerated2"
    /\ \E i \in 1..Len(call.m1) : call.m1[i] = Omega /\ call.m2[i] # Omega
    /\ \E i \in 1..Len(call.m1) : call.m1[i] # Omega /\ call.acc[i] = Omega

(* C11: a second build of the same valid net displays the tree the first
   build displayed: the same nodes (ids, markings, tags, links) and the same
   edges in the same order. *)
C11_SameTreeEveryBuild ==
    hist.prev.produced => hist.shown = hist.prev

(* a tree of at least three nodes was built twice *)
C11_Witness ==
    /\ pc = "done"
    /\ hist.prev.produced
    /\ Len(hist.shown.nodes) >= 3
    /\ Len(nodes[1].children) >= 2

(* firing by the omega arithmetic: Omega - w = Omega + w = Omega *)
FireDirect(n, t, m) ==
    [i \in 1..Len(m) |->
        IF m[i] = Omega THEN Omega
        ELSE m[i] - n.transitions[t].in[i] + n.transitions[t].out[i]]

(* s covers a and is not a *)
Qualifies(s, a) == Covers(s, a) /\ s # a

(* the positions on the parent's root path whose marking s qualifies against *)
QualifyingAt(k) ==
    LET par == nodes[k].parent + 1
        s == FireDirect(net, nodes[k].transition, nodes[par].marking)
        P == nodes[par].path_to_root
    IN  {j \in 1..Len(P) : Qualifies(s, nodes[P[j] + 1].marking)}

ExpectedMarking(k) ==
    LET par == nodes[k].parent + 1
        s == FireDirect(net, nodes[k].transition, nodes[par].marking)
        P == nodes[par].path_to_root
        Q == QualifyingAt(k)
    IN  IF Q = {} THEN s
        ELSE LET j == CHOOSE x \in Q : \A y \in Q : x <= y
             IN  apply_omega(s, nodes[P[j] + 1].marking)

(* C12: a child's marking is the fired marking s widened against the first
   node, from the root down to the parent, that s covers without being equal
   to it; with no such node it is s. *)
C12_FirstQualifyingAncestor ==
    Valid(net) =>
        \A k \in 2..Len(nodes) : nodes[k].marking = ExpectedMarking(k)

(* a child whose fired marking qualifies against two ancestors that widen it
   differently *)
C12_Witness ==
    /\ Valid(net)
    /\ \E k \in 2..Len(nodes) :
          LET par == nodes[k].parent + 1
              s == FireDirect(net, nodes[k].transition, nodes[par].marking)
              P == nodes[par].path_to_root
          IN  \E a, b \in QualifyingAt(k) :
                  apply_omega(s, nodes[P[a] + 1].marking)
                      # apply_omega(s, nodes[P[b] + 1].marking)

(* C13: the marking build_tree computes before widening (sentinel in, fire,
   Omega restored) is the marking the omega arithmetic gives from the
   expanded node's marking, and a finite component stays finite. *)
C13_SentinelFiringIsOmegaArithmetic ==
    (Valid(net) /\ hist.fired.called) =>
        LET m == nodes[hist.fired.node + 1].marking
        IN  /\ hist.fired.successor = FireDirect(net, hist.fired.transition, m)
            /\ \A i \in 1..Len(m) :
                  m[i] # Omega => hist.fired.successor[i] >= 0

(* a transition with an input and an output arc was fired *)
C13_Witness ==
    /\ Valid(net)
    /\ hist.fired.called
    /\ \E i \in 1..Len(net.places) :
          net.transitions[hist.fired.transition].in[i] > 0
    /\ \E i \in 1..Len(net.places) :
          net.transitions[hist.fired.transition].out[i] > 0
    /\ hist.fired.successor # nodes[hist.fired.node + 1].marking

(* C14 as claimed: a tag changes only from new, to processed, old or
   dead-end, and never changes again; at the end no node is new. *)
C14_TagChangesOnce ==
    /\ [][\A k \in 1..Len(nodes) :
              nodes'[k].tag # nodes[k].tag =>
                 /\ nodes[k].tag = "new"
                 /\ nodes'[k].tag \in {"processed", "old", "dead-end"}]_vars
    /\ [](pc = "done" => \A k \in 1..Len(nodes) : nodes[k].tag # "new")

(* C14 amended: a node is tagged processed when it is dequeued; while it is
   still the current node and has no child, that tag may be replaced once by
   old or dead-end; no other tag change happens, and at the end no node is
   new. *)
C14_TagSteps ==
    /\ [][\A k \in 1..Len(nodes) :
              nodes'[k].tag # nodes[k].tag =>
                 \/ /\ nodes[k].tag = "new"
                    /\ nodes'[k].tag = "processed"
                    /\ pc = "loop"
                    /\ k = Head(new_nodes) + 1
                 \/ /\ nodes[k].tag = "processed"
                    /\ nodes'[k].tag \in {"old", "dead-end"}
                    /\ pc \in {"ancestors", "enabled"}
                    /\ k = current + 1
                    /\ nodes[k].children = <<>>
                    /\ pc' = "loop"]_vars
    /\ [](pc = "done" => \A k \in 1..Len(nodes) : nodes[k].tag # "new")

(* a finished build with a processed, an old and a dead-end node *)
C14_Witness ==
    /\ pc = "done"
    /\ \E k \in 1..Len(nodes) : nodes[k].tag = "processed"
    /\ \E k \in 1..Len(nodes) : nodes[k].tag = "old"
    /\ \E k \in 1..Len(nodes) : nodes[k].tag = "dead-end"

(* every consumed place holds at least the weight, Omega holding any weight *)
EnabledDirect(n, t, m) ==
    \A i \in 1..Len(m) : Geq(m[i], n.transitions[t].in[i])

ChildTransitions(k) ==
    [j \in 1..Len(nodes[k].children) |->
        nodes[nodes[k].children[j] + 1].transition]

(* C15: at the end old and dead-end nodes have no children, and a processed
   node has one child per transition enabled at its marking, in definition
   order, so at least one. *)
C15_ChildrenPerTag ==
    (pc = "done" /\ Valid(net)) =>
        \A k \in 1..Len(nodes) :
            /\ nodes[k].tag \in {"old", "dead-end"} => nodes[k].children = <<>>
            /\ nodes[k].tag = "processed" =>
                  LET ts == ChildTransitions(k)
                  IN  /\ Len(ts) >= 1
                      /\ \A a, b \in 1..Len(ts) : a < b => ts[a] < ts[b]
                      /\ {ts[j] : j \in 1..Len(ts)} =
                            {t \in 1..Len(net.transitions) :
                                EnabledDirect(net, t, nodes[k].marking)}
                      /\ \A j \in 1..Len(ts) :
                            nodes[nodes[k].children[j] + 1].parent = k - 1

(* a finished build with a processed node of two children, an old node and
   a dead-end node *)
C15_Witness ==
    /\ pc = "done" /\ Valid(net)
    /\ \E k \in 1..Len(nodes) :
          nodes[k].tag = "processed" /\ Len(nodes[k].children) = 2
    /\ \E k \in 1..Len(nodes) : nodes[k].tag = "old"
    /\ \E k \in 1..Len(nodes) : nodes[k].tag = "dead-end"

(* C16: at the end a node is tagged dead-end exactly when it is not tagged
   old and no transition is enabled at its marking. *)
C16_DeadEndIffNothingEnabled ==
    (pc = "done" /\ Valid(net)) =>
        \A k \in 1..Len(nodes) :
            (nodes[k].tag = "dead-end") <=>
                /\ nodes[k].tag # "old"
                /\ \A t \in 1..Len(net.transitions) :
                      ~EnabledDirect(net, t, nodes[k].marking)

(* a finished build with a dead-end node below the root, and a node holding
   exactly the tokens a transition consumes *)
C16_Witness ==
    /\ pc = "done" /\ Valid(net)
    /\ \E k \in 2..Len(nodes) : nodes[k].tag = "dead-end"
    /\ \E k \in 1..Len(nodes) :
          /\ nodes[k].tag = "processed"
          /\ \E t \in 1..Len(net.transitions) : \E i \in 1..Len(net.places) :
                net.transitions[t].in[i] > 0
                   /\ nodes[k].marking[i] = net.transitions[t].in[i]

RECURSIVE Depth(_)
(* the number of parent links from node k (a position in nodes) to the root *)
Depth(k) ==
    IF nodes[k].parent = NoneRef THEN 0 ELSE 1 + Depth(nodes[k].parent + 1)

(* C17: nodes are dequeued in increasing id order, nodes[i].node_id = i,
   a child's id is greater than its parent's, and a node with a smaller id
   is never deeper than one with a larger id. *)
C17_BreadthFirstOrder ==
    /\ \A a, b \in 1..Len(hist.dequeued) :
          a < b => hist.dequeued[a] < hist.dequeued[b]
    /\ \A k \in 1..Len(nodes) :
          /\ nodes[k].node_id = k - 1
          /\ nodes[k].parent < nodes[k].node_id
    /\ \A a, b \in 1..Len(nodes) :
          nodes[a].node_id < nodes[b].node_id => Depth(a) <= Depth(b)

(* four nodes dequeued, two of them on one level, from a tree of depth 2 *)
C17_Witness ==
    /\ Len(hist.dequeued) >= 4
    /\ \E a, b \in 1..Len(nodes) : a # b /\ Depth(a) = 1 /\ Depth(b) = 1
    /\ \E a \in 1..Len(nodes) : Depth(a) = 2

(* C18: a node's path_to_root runs from the root to the node along parent
   links and has depth + 1 elements; edges holds one entry (parent id, child
   id, transition) per node below the root, matching its fields. *)
C18_PathsAndEdges ==
    /\ \A k \in 1..Len(nodes) :
          LET P == nodes[k].path_to_root
          IN  /\ Len(P) = Depth(k) + 1
              /\ P[1] = 0
              /\ nodes[1].parent = NoneRef
              /\ P[Len(P)] = k - 1
              /\ \A j \in 1..(Len(P) - 1) : nodes[P[j + 1] + 1].parent = P[j]
    /\ Len(edges) = Len(nodes) - (IF nodes = <<>> THEN 0 ELSE 1)
    /\ \A k \in 2..Len(nodes) :
          /\ Cardinality({j \in 1..Len(edges) : edges[j][2] = k - 1}) = 1
          /\ \E j \in 1..Len(edges) :
                edges[j] = <<nodes[k].parent, k - 1, nodes[k].transition>>

(* a tree with a node at depth 2 and three edges *)
C18_Witness ==
    /\ Len(edges) >= 3
    /\ \E k \in 1..Len(nodes) : Len(nodes[k].path_to_root) = 3

(* C19: on a valid net every node's marking has one component per place,
   each Omega or a non-negative integer, and no firing gives a negative
   count. *)
C19_MarkingsWellFormed ==
    Valid(net) =>
        /\ \A k \in 1..Len(nodes) :
              /\ Len(nodes[k].marking) = Len(net.places)
              /\ \A i \in 1..Len(nodes[k].marking) :
                    nodes[k].marking[i] = Omega \/ nodes[k].marking[i] >= 0
        /\ hist.fired.called =>
              /\ Len(hist.fired.result) = Len(net.places)
              /\ \A i \in 1..Len(hist.fired.result) : hist.fired.result[i] >= 0

(* a firing that emptied a place, and a node holding Omega *)
C19_Witness ==
    /\ Valid(net)
    /\ hist.fired.called
    /\ \E i \in 1..Len(hist.fired.result) :
          hist.fired.result[i] = 0 /\ hist.fired.passed[i] > 0
    /\ \E k \in 1..Len(nodes) : HasOmega(nodes[k].marking)

====
